---- MODULE Spec2Model ----
(***************************************************************************)
(* A model of the limit order book of src/main.cpp: class Orderbook with   *)
(* its two price ladders bids_ and asks_, its order index orders_, and the *)
(* public operations AddOrder, CancelOrder and MatchOrder (modify).        *)
(*                                                                         *)
(* Reading of the source.  main.cpp does not compile as it stands; three   *)
(* slips are read the evident way: line 278 `return ( );` as `return { };`,*)
(* line 288 `order.push_back(order)` as `orders.push_back(order)`, and in  *)
(* GetOrderInfos (lines 339-351) `order_` as `orders_`; its loop has no    *)
(* range and no body and it has no return statement, and is modelled so.   *)
(*                                                                         *)
(* Undefined behaviour.  The operators below compute the path the code     *)
(* takes when a freed node still holds the values it held (field ub marks  *)
(* that such a read happened); the actions then choose among the outcomes: *)
(* that path, or the process dying ("aborted").  MatchOrders leaving its   *)
(* loop by break reaches the end of a value-returning function (line 254): *)
(* the caller then receives an indeterminate Trades value.                 *)
(***************************************************************************)
EXTENDS Integers, Sequences, FiniteSets, TLC

\* ---------------------------------------------------------------- bounds
MaxId == 2
MaxPrice == 2
MaxQty == 2
MaxOrders == 2

OrderIds == 1..MaxId
Prices == 1..MaxPrice
Quantities == 1..MaxQty
Handles == 1..MaxOrders

\* ----------------------------------------------------------------- types
OrderType == {"GoodTillCancel", "FillAndKill"}
Side == {"Buy", "Sell"}

\* Order with remainingQuantity_ left out of the initialiser list.
OrderRemainingUnset(orderType, orderId, side, price, quantity) ==
    [orderType_ |-> orderType, orderId_ |-> orderId, side_ |-> side,
     price_ |-> price, initialQuantity_ |-> quantity,
     remainingQuantity_ |-> 0]

\* class Order, as constructed: remaining = initial.
Order(orderType, orderId, side, price, quantity) ==
    [orderType_ |-> orderType, orderId_ |-> orderId, side_ |-> side,
     price_ |-> price, initialQuantity_ |-> quantity,
     remainingQuantity_ |-> quantity]

\* class OrderModify
OrderModify(orderId, side, price, quantity) ==
    [orderId_ |-> orderId, side_ |-> side, price_ |-> price,
     quantity_ |-> quantity]

ToOrderPointer(modify, type) ==
    Order(type, modify.orderId_, modify.side_, modify.price_, modify.quantity_)

TradeInfo(orderId, price, quantity) ==
    [orderId_ |-> orderId, price_ |-> price, quantity_ |-> quantity]

Trade(bidTrade, askTrade) == [bidTrade_ |-> bidTrade, askTrade_ |-> askTrade]

\* ----------------------------------------------------------------- state
\* pool   : the Order objects alive on the heap (the targets of the
\*          shared pointers), by handle
\* bids   : bids_, price -> list of handles (best = greatest key)
\* asks   : asks_, price -> list of handles (best = least key)
\* orders : orders_, order id -> OrderEntry
\* last   : the last call, its arguments and what the caller got back
VARIABLES pool, bids, asks, orders, last

vars == <<pool, bids, asks, orders, last>>

Book == [pool |-> pool, bids |-> bids, asks |-> asks, orders |-> orders]

Empty == <<>>

\* ------------------------------------------------------------- utilities
Max(S) == CHOOSE x \in S : \A y \in S : y <= x
Min(S) == CHOOSE x \in S : \A y \in S : x <= y

Erase(f, k) == [x \in (DOMAIN f) \ {k} |-> f[x]]

Put(f, k, v) == [x \in (DOMAIN f) \cup {k} |-> IF x = k THEN v ELSE f[x]]

Range(s) == {s[i] : i \in DOMAIN s}

RemoveNode(s, h) == SelectSeq(s, LAMBDA x : x # h)

Nodes(ladder) == UNION {Range(ladder[p]) : p \in DOMAIN ladder}

\* shared_ptr: an Order object lives as long as a list node or an index
\* entry holds it.
Release(b) ==
    LET held == Nodes(b.bids) \cup Nodes(b.asks)
                \cup {b.orders[i].order_ : i \in DOMAIN b.orders}
    IN  [b EXCEPT !.pool = [h \in (DOMAIN b.pool) \cap held |-> b.pool[h]]]

NewHandle(b) == Min(Handles \ DOMAIN b.pool)

Size(b) == Cardinality(DOMAIN b.orders)

Ladder(b, which) == IF which = "bids" THEN b.bids ELSE b.asks

SetLadder(b, which, ladder) ==
    IF which = "bids" THEN [b EXCEPT !.bids = ladder]
                      ELSE [b EXCEPT !.asks = ladder]

\* begin() of a ladder: bids_ is ordered by std::greater, asks_ by std::less.
Begin(b, which) ==
    IF which = "bids" THEN Max(DOMAIN b.bids) ELSE Min(DOMAIN b.asks)

\* What an operation hands back: the book it leaves, the trades it built,
\* how it ended ("returned", an exception's name, "no_return" for the end
\* of MatchOrders reached without a return statement, "aborted"), and
\* whether it read through a dangling reference on the way.
Result(b, trades, outcome, ub) ==
    [book |-> b, trades |-> trades, outcome |-> outcome, ub |-> ub]

\* ------------------------------------------------------- Order::Fill
FillThrows(order, quantity) == quantity > order.remainingQuantity_

Fill(order, quantity) ==
    [order EXCEPT !.remainingQuantity_ = @ - quantity]

IsFilled(order) == order.remainingQuantity_ = 0

\* ------------------------------------------------- Orderbook::CanMatch
\* CanMatch with the two comparisons exchanged between the sides.
CanMatchSwapped(b, side, price) ==
    IF side = "Buy"
    THEN IF DOMAIN b.asks = {} THEN FALSE ELSE price <= Min(DOMAIN b.asks)
    ELSE IF DOMAIN b.bids = {} THEN FALSE ELSE price >= Max(DOMAIN b.bids)

CanMatch(b, side, price) ==
    IF side = "Buy"
    THEN IF DOMAIN b.asks = {} THEN FALSE ELSE price >= Min(DOMAIN b.asks)
    ELSE IF DOMAIN b.bids = {} THEN FALSE ELSE price <= Max(DOMAIN b.bids)

\* ---------------------------------------------- Orderbook::CancelOrder
\* EraseAt without `if (orders.empty()) ladder.erase(price)`.
EraseAtKeepLevel(b, which, price, location) ==
    LET level == Ladder(b, which)[price]
        rest == RemoveNode(level, location)
    IN  IF location \notin Range(level)
        THEN Result(b, <<>>, "aborted", TRUE)
        ELSE Result(Release(SetLadder(b, which,
                                      Put(Ladder(b, which), price, rest))),
                    <<>>, "returned", TRUE)

\* EraseAt with orders.pop_front() for orders.erase(iterator).
EraseAtFront(b, which, price, location) ==
    LET level == Ladder(b, which)[price]
        rest == Tail(level)
        ladder == IF rest = <<>> THEN Erase(Ladder(b, which), price)
                  ELSE Put(Ladder(b, which), price, rest)
    IN  IF location \notin Range(level)
        THEN Result(b, <<>>, "aborted", TRUE)
        ELSE Result(Release(SetLadder(b, which, ladder)), <<>>, "returned", TRUE)

\* orders.erase(iterator); if (orders.empty()) ladder.erase(price);
\* An iterator of another list has no defined erase.
EraseAt(b, which, price, location) ==
    LET level == Ladder(b, which)[price]
        rest == RemoveNode(level, location)
        ladder == IF rest = <<>> THEN Erase(Ladder(b, which), price)
                  ELSE Put(Ladder(b, which), price, rest)
    IN  IF location \notin Range(level)
        THEN Result(b, <<>>, "aborted", TRUE)
        ELSE Result(Release(SetLadder(b, which, ladder)), <<>>, "returned", TRUE)

\* The structured binding of line 306 refers into the index entry that
\* line 307 erases: order and iterator dangle from there on (ub).
\* ladder.at(price) throws std::out_of_range when the level is absent.
CancelOrder(b, orderId) ==
    IF orderId \notin DOMAIN b.orders
    THEN Result(b, <<>>, "returned", FALSE)
    ELSE LET entry == b.orders[orderId]
             order == b.pool[entry.order_]
             b1 == [b EXCEPT !.orders = Erase(b.orders, orderId)]
             which == IF order.side_ = "Sell" THEN "asks" ELSE "bids"
         IN  IF order.price_ \notin DOMAIN Ladder(b1, which)
             THEN Result(Release(b1), <<>>, "out_of_range", TRUE)
             ELSE EraseAt(b1, which, order.price_, entry.location_)

\* -------------------------- Orderbook::CheckAndCancelFillAndKillOrders
cancelFillAndKillOrder(b, which) ==
    IF DOMAIN Ladder(b, which) = {}
    THEN Result(b, <<>>, "returned", FALSE)
    ELSE LET level == Ladder(b, which)[Begin(b, which)]
         IN  IF level = <<>>
             THEN Result(b, <<>>, "aborted", TRUE)
             ELSE IF b.pool[Head(level)].orderType_ = "FillAndKill"
                  THEN CancelOrder(b, b.pool[Head(level)].orderId_)
                  ELSE Result(b, <<>>, "returned", FALSE)

CheckAndCancelFillAndKillOrders(b) ==
    LET r1 == cancelFillAndKillOrder(b, "bids")
        r2 == cancelFillAndKillOrder(r1.book, "asks")
    IN  IF r1.outcome # "returned" THEN r1
        ELSE [r2 EXCEPT !.ub = r1.ub \/ r2.ub]

\* ----------------------------------------------- Orderbook::MatchOrders
\* bid->Fill(quantity) / ask->Fill(quantity) on the front of a level.
FillFront(b, which, price, quantity) ==
    [b EXCEPT !.pool[Head(Ladder(b, which)[price])] = Fill(@, quantity)]

\* Lines 225-235: a filled front is popped and its id erased from the
\* index.  After pop_front the reference to the front dangles; the erase
\* goes by the id read through it.
PopIfFilled(b, which, price) ==
    IF IsFilled(b.pool[Head(Ladder(b, which)[price])])
    THEN [SetLadder(b, which,
                    Put(Ladder(b, which), price, Tail(Ladder(b, which)[price])))
            EXCEPT !.orders =
                Erase(@, b.pool[Head(Ladder(b, which)[price])].orderId_)]
    ELSE b

\* Lines 237-241: if (bids.empty()) bids_.erase(bidPrice).
EraseIfEmpty(b, which, price) ==
    IF Ladder(b, which)[price] = <<>>
    THEN SetLadder(b, which, Erase(Ladder(b, which), price))
    ELSE b

\* One match event of the inner loop (lines 217-246) on the fronts of the
\* levels bidPrice and askPrice.
MatchFront(b, bidPrice, askPrice) ==
    LET bid == b.pool[Head(b.bids[bidPrice])]
        ask == b.pool[Head(b.asks[askPrice])]
        quantity == Min({bid.remainingQuantity_, ask.remainingQuantity_})
        filled == FillFront(FillFront(b, "bids", bidPrice, quantity),
                            "asks", askPrice, quantity)
        popped == PopIfFilled(PopIfFilled(filled, "bids", bidPrice),
                              "asks", askPrice)
        erased == EraseIfEmpty(EraseIfEmpty(popped, "bids", bidPrice),
                               "asks", askPrice)
        trade == Trade(TradeInfo(bid.orderId_, bid.price_, quantity),
                       TradeInfo(ask.orderId_, ask.price_, quantity))
    IN  IF FillThrows(bid, quantity) \/ FillThrows(ask, quantity)
        THEN Result(b, <<>>, "logic_error", FALSE)
        ELSE Result(Release(erased), <<trade>>, "returned",
                    bid.remainingQuantity_ = quantity
                    \/ ask.remainingQuantity_ = quantity)

\* The inner loop, while (!bids.empty() && !asks.empty()): bids and asks
\* refer to the two levels found at line 209-210; once a level is erased
\* from its ladder the reference dangles and reads as an empty list.
RECURSIVE MatchLevel(_, _, _, _, _)
MatchLevel(b, bidPrice, askPrice, trades, ub) ==
    IF bidPrice \notin DOMAIN b.bids \/ askPrice \notin DOMAIN b.asks
    THEN Result(b, trades, "returned", TRUE)
    ELSE IF b.bids[bidPrice] = <<>> \/ b.asks[askPrice] = <<>>
    THEN Result(b, trades, "returned", ub)
    ELSE LET m == MatchFront(b, bidPrice, askPrice)
         IN  IF m.outcome # "returned"
             THEN Result(m.book, trades, m.outcome, ub)
             ELSE MatchLevel(m.book, bidPrice, askPrice,
                             trades \o m.trades, ub \/ m.ub)

\* while (true) { break; break; inner loop; sweep; return trades; } and no
\* return after the loop: both breaks end in "no_return"; the body runs
\* at most once.
MatchOrders(b) ==
    IF DOMAIN b.bids = {} \/ DOMAIN b.asks = {}
    THEN Result(b, <<>>, "no_return", FALSE)
    ELSE IF Max(DOMAIN b.bids) < Min(DOMAIN b.asks)
    THEN Result(b, <<>>, "no_return", FALSE)
    ELSE LET m == MatchLevel(b, Max(DOMAIN b.bids), Min(DOMAIN b.asks),
                             <<>>, FALSE)
             c == CheckAndCancelFillAndKillOrders(m.book)
         IN  IF m.outcome # "returned" THEN m
             ELSE Result(c.book, m.trades, c.outcome, m.ub \/ c.ub)

\* ------------------------------------------------- Orderbook::AddOrder
\* Lines 285-296: both branches take the level from bids_.
Insert(b, order, h) ==
    IF order.side_ = "Buy"
    THEN [b EXCEPT !.bids = Put(@, order.price_,
             (IF order.price_ \in DOMAIN @ THEN @[order.price_] ELSE <<>>)
             \o <<h>>)]
    ELSE [b EXCEPT !.bids = Put(@, order.price_,
             (IF order.price_ \in DOMAIN @ THEN @[order.price_] ELSE <<>>)
             \o <<h>>)]

AddOrder(b, order) ==
    IF order.orderId_ \in DOMAIN b.orders
    THEN Result(b, <<>>, "returned", FALSE)
    ELSE IF order.orderType_ = "FillAndKill"
            /\ ~CanMatch(b, order.side_, order.price_)
    THEN Result(b, <<>>, "returned", FALSE)
    ELSE LET h == NewHandle(b)
             b1 == [b EXCEPT !.pool = Put(@, h, order)]
             b2 == Insert(b1, order, h)
             b3 == [b2 EXCEPT !.orders = Put(@, order.orderId_,
                                 [order_ |-> h, location_ |-> h])]
         IN  MatchOrders(b3)

\* ----------------------------------------------- Orderbook::MatchOrder
\* existingOrder (line 332) refers into the index entry that CancelOrder
\* erases, and the Order it points to is freed with its list node: `type`
\* is what line 334 reads there.
MatchOrder(b, modify, type) ==
    IF modify.orderId_ \notin DOMAIN b.orders
    THEN Result(b, <<>>, "returned", FALSE)
    ELSE LET c == CancelOrder(b, modify.orderId_)
             a == AddOrder(c.book, ToOrderPointer(modify, type))
         IN  IF c.outcome # "returned" THEN c
             ELSE [a EXCEPT !.ub = TRUE]

\* -------------------------------------------- Orderbook::GetOrderInfos
LevelInfo(price, quantity) == [price_ |-> price, quantity_ |-> quantity]

OrderbookLevelInfos(bidInfos, askInfos) ==
    [bids_ |-> bidInfos, asks_ |-> askInfos]

\* std::accumulate over a level, lines 346-348.
RECURSIVE Accumulate(_, _, _)
Accumulate(b, level, runningSum) ==
    IF level = <<>> THEN runningSum
    ELSE Accumulate(b, Tail(level),
                    runningSum + b.pool[Head(level)].remainingQuantity_)

\* The lambda of lines 345-349.  The sum is narrowed to Quantity (32 bits);
\* the quantities of the model stay far below that width.
CreateLevelInfos(b, price, level) ==
    LevelInfo(price, Accumulate(b, level, 0))

\* Lines 341-351: two empty vectors are reserved, the lambda is defined and
\* never called, the for statement has no range and no body, and the closing
\* brace is reached without a return statement.
GetOrderInfos(b) ==
    [book |-> b, infos |-> OrderbookLevelInfos(<<>>, <<>>),
     outcome |-> "no_return", ub |-> FALSE]

\* ---------------------------------------------------------- the calls
\* A Trades value that was never returned is whatever the return slot
\* holds: here no trade at all, or one trade whose two records name any
\* order ids and carry any quantities.
IndeterminateTrades ==
    {<<>>} \cup
    {<<Trade(TradeInfo(i, 1, q), TradeInfo(j, 1, r))>> :
        i \in OrderIds, j \in OrderIds,
        q \in Quantities, r \in Quantities}

\* What the caller can observe of a call whose path through the code is r.
Outcomes(r) ==
    LET aborted == [book |-> r.book, outcome |-> "aborted", trades |-> <<>>]
    IN  IF r.outcome = "no_return"
        THEN {[book |-> r.book, outcome |-> "returned", trades |-> t] :
                 t \in {r.trades} \cup IndeterminateTrades} \cup {aborted}
        ELSE {[book |-> r.book, outcome |-> r.outcome,
               trades |-> IF r.outcome = "returned" THEN r.trades ELSE <<>>]}
             \cup (IF r.ub THEN {aborted} ELSE {})

Call(op, arg, r) ==
    \E o \in Outcomes(r) :
        /\ pool' = o.book.pool
        /\ bids' = o.book.bids
        /\ asks' = o.book.asks
        /\ orders' = o.book.orders
        /\ last' = [op |-> op, arg |-> arg, outcome |-> o.outcome,
                    trades |-> o.trades]

Running == last.outcome # "aborted"

Init ==
    /\ pool = Empty
    /\ bids = Empty
    /\ asks = Empty
    /\ orders = Empty
    /\ last = [op |-> "Orderbook", arg |-> Empty, outcome |-> "returned",
               trades |-> <<>>]

AddOrderCall ==
    /\ Running
    /\ Cardinality(DOMAIN pool) < MaxOrders
    /\ \E type \in OrderType, id \in OrderIds, side \in Side,
          price \in Prices, quantity \in Quantities :
          LET order == Order(type, id, side, price, quantity)
          IN  Call("AddOrder", order, AddOrder(Book, order))

CancelOrderCall ==
    /\ Running
    /\ \E id \in OrderIds :
          Call("CancelOrder", [orderId_ |-> id], CancelOrder(Book, id))

MatchOrderCall ==
    /\ Running
    /\ \E id \in OrderIds, side \in Side, price \in Prices,
          quantity \in Quantities, type \in OrderType :
          LET modify == OrderModify(id, side, price, quantity)
          IN  Call("MatchOrder", modify, MatchOrder(Book, modify, type))

\* An OrderbookLevelInfos value that was never returned: here, on each side
\* no entry, or one entry of any quantity.
IndeterminateInfos ==
    LET side == {<<>>} \cup {<<LevelInfo(1, q)>> : q \in Quantities}
    IN  {OrderbookLevelInfos(x, y) : x \in side, y \in side}

GetOrderInfosCall ==
    /\ Running
    /\ LET r == GetOrderInfos(Book)
       IN  \E o \in {[outcome |-> "returned", infos |-> i] :
                         i \in {r.infos} \cup IndeterminateInfos}
                    \cup {[outcome |-> "aborted", infos |-> r.infos]} :
               /\ r.outcome = "no_return"
               /\ pool' = r.book.pool
               /\ bids' = r.book.bids
               /\ asks' = r.book.asks
               /\ orders' = r.book.orders
               /\ last' = [op |-> "GetOrderInfos", arg |-> Empty,
                           outcome |-> o.outcome, trades |-> <<>>,
                           infos |-> o.infos]

Next ==
    AddOrderCall \/ CancelOrderCall \/ MatchOrderCall \/ GetOrderInfosCall

Spec == Init /\ [][Next]_vars

\* ================================================================ claims
Resting == Nodes(bids) \cup Nodes(asks)

Returned(ops) == last.op \in ops /\ last.outcome = "returned"

Crosses(side, price, other) ==
    IF side = "Buy" THEN price >= other ELSE price <= other

Named(id, trades) ==
    \E i \in DOMAIN trades : trades[i].bidTrade_.orderId_ = id
                             \/ trades[i].askTrade_.orderId_ = id

RECURSIVE TradedQuantity(_, _)
TradedQuantity(id, trades) ==
    IF trades = <<>> THEN 0
    ELSE (IF Head(trades).bidTrade_.orderId_ = id
          THEN Head(trades).bidTrade_.quantity_ ELSE 0)
         + (IF Head(trades).askTrade_.orderId_ = id
            THEN Head(trades).askTrade_.quantity_ ELSE 0)
         + TradedQuantity(id, Tail(trades))

BookUnchanged == UNCHANGED <<pool, bids, asks, orders>>

SideAssignment ==
    Running =>
        /\ \A p \in DOMAIN bids : \A h \in Range(bids[p]) :
               pool[h].side_ = "Buy" /\ pool[h].price_ = p
        /\ \A p \in DOMAIN asks : \A h \in Range(asks[p]) :
               pool[h].side_ = "Sell" /\ pool[h].price_ = p

\* C3 (multi-level matching): when AddOrder has returned and the submitted
\* order still rests, no opposing order rests at a price its limit crosses:
\* the pass went on through every crossed level.
MultiLevelMatching ==
    Returned({"AddOrder"}) =>
        \A x \in Resting, y \in Resting :
            (/\ pool[x].orderId_ = last.arg.orderId_
             /\ pool[x].side_ = last.arg.side_
             /\ pool[x].price_ = last.arg.price_
             /\ pool[x].remainingQuantity_ > 0
             /\ pool[y].side_ # last.arg.side_)
                => ~Crosses(last.arg.side_, last.arg.price_, pool[y].price_)

FillAndKillRejected ==
    [][(/\ last'.op = "AddOrder"
        /\ last'.arg.orderType_ = "FillAndKill"
        /\ last'.arg.orderId_ \notin DOMAIN orders
        /\ IF last'.arg.side_ = "Buy"
           THEN DOMAIN asks = {} \/ last'.arg.price_ < Min(DOMAIN asks)
           ELSE DOMAIN bids = {} \/ last'.arg.price_ > Max(DOMAIN bids))
       => (/\ last'.outcome = "returned"
           /\ last'.trades = <<>>
           /\ BookUnchanged)]_vars

\* C7 witness: a FillAndKill Sell priced above the best bid has just been
\* turned away from a book that holds bids.
FillAndKillRejectedWitness ==
    /\ Returned({"AddOrder"})
    /\ last.arg.orderType_ = "FillAndKill"
    /\ last.arg.side_ = "Sell"
    /\ last.arg.orderId_ \notin DOMAIN orders
    /\ DOMAIN bids # {}
    /\ last.arg.price_ > Max(DOMAIN bids)
    /\ last.trades = <<>>

\* C8 (FillAndKill never rests): after AddOrder or MatchOrder has returned,
\* no FillAndKill order is in a ladder or in the index.
FillAndKillNeverRests ==
    Returned({"AddOrder", "MatchOrder"}) =>
        /\ \A h \in Resting : pool[h].orderType_ # "FillAndKill"
        /\ \A i \in DOMAIN orders :
               pool[orders[i].order_].orderType_ # "FillAndKill"

\* C9 (silent no-ops): AddOrder of an id that rests in a ladder, and
\* CancelOrder or MatchOrder of an id that rests in no ladder, return no
\* trades, raise nothing and change nothing.
SilentNoOps ==
    [][(/\ last'.outcome # "aborted"
        /\ \/ /\ last'.op = "AddOrder"
              /\ \E h \in Resting : pool[h].orderId_ = last'.arg.orderId_
           \/ /\ last'.op \in {"CancelOrder", "MatchOrder"}
              /\ \A h \in Resting : pool[h].orderId_ # last'.arg.orderId_)
       => (/\ last'.outcome = "returned"
           /\ last'.trades = <<>>
           /\ BookUnchanged)]_vars

\* C10 (cancel completeness): CancelOrder of an id in the index completes
\* without error, takes exactly one entry out of the index, leaves the id in
\* no ladder, and returns no trades.
CancelCompleteness ==
    [][(/\ last'.op = "CancelOrder"
        /\ last'.arg.orderId_ \in DOMAIN orders
        /\ last'.outcome # "aborted")
       => (/\ last'.outcome = "returned"
           /\ Cardinality(DOMAIN orders') = Cardinality(DOMAIN orders) - 1
           /\ last'.arg.orderId_ \notin DOMAIN orders'
           /\ \A h \in Nodes(bids') \cup Nodes(asks') :
                  pool'[h].orderId_ # last'.arg.orderId_
           /\ last'.trades = <<>>)]_vars

\* C11 (atomicity): a call that ends in an exception leaves pool, ladders
\* and index exactly as it found them: no operation fails after it has
\* already taken the order out of the index or changed a ladder.
Atomicity ==
    [][(last'.outcome \notin {"returned", "aborted"}) => BookUnchanged]_vars

\* C12 (modify is cancel-and-replace): the path of CancelOrder(id) followed
\* by AddOrder of a new order with the same id, the kind the order had before
\* the cancel, and the new side, price and quantity.
CancelAndReplace(b, modify) ==
    LET kind == b.pool[b.orders[modify.orderId_].order_].orderType_
        c == CancelOrder(b, modify.orderId_)
    IN  IF c.outcome # "returned" THEN c
        ELSE AddOrder(c.book, ToOrderPointer(modify, kind))

\* C12 (modify is cancel-and-replace): MatchOrder of an id in the index
\* leaves the book, and hands back the trades, that CancelOrder(id) followed
\* by AddOrder of the replacement with the original kind can produce.
ModifyIsCancelAndReplace ==
    [][(/\ last'.op = "MatchOrder"
        /\ last'.arg.orderId_ \in DOMAIN orders
        /\ last'.outcome # "aborted")
       => \E o \in Outcomes(CancelAndReplace(Book, last'.arg)) :
              /\ o.outcome = last'.outcome
              /\ o.trades = last'.trades
              /\ o.book = Book']_vars

\* The levels of a ladder in its canonical order, each with the sum of the
\* remaining quantities of its orders.
RECURSIVE LevelInfos(_, _, _, _)
LevelInfos(b, ladder, prices, descending) ==
    IF prices = {} THEN <<>>
    ELSE LET p == IF descending THEN Max(prices) ELSE Min(prices)
         IN  <<CreateLevelInfos(b, p, ladder[p])>>
             \o LevelInfos(b, ladder, prices \ {p}, descending)

\* C13 (snapshot correctness): GetOrderInfos returns, for each ladder, one
\* entry per price level with the sum of the remaining quantities of the
\* level's orders, bids in descending and asks in ascending price order,
\* and changes nothing.
SnapshotCorrect ==
    [][(last'.op = "GetOrderInfos" /\ last'.outcome # "aborted")
       => (/\ last'.outcome = "returned"
           /\ last'.infos =
                  OrderbookLevelInfos(
                      LevelInfos(Book, bids, DOMAIN bids, TRUE),
                      LevelInfos(Book, asks, DOMAIN asks, FALSE))
           /\ BookUnchanged)]_vars

\* C14 (non-crossing submit rests): AddOrder of a GoodTillCancel order with
\* a fresh id, whose opposing ladder is empty or whose price does not reach
\* the opposing best price, returns the empty trade list, makes Size() one
\* greater, and leaves the order last in the level of its price in the
\* ladder of its side, with its remaining quantity equal to its initial one.
NonCrossingSubmitRests ==
    [][(/\ last'.op = "AddOrder"
        /\ last'.arg.orderType_ = "GoodTillCancel"
        /\ last'.arg.orderId_ \notin DOMAIN orders
        /\ IF last'.arg.side_ = "Buy"
           THEN DOMAIN asks = {} \/ last'.arg.price_ < Min(DOMAIN asks)
           ELSE DOMAIN bids = {} \/ last'.arg.price_ > Max(DOMAIN bids)
        /\ last'.outcome # "aborted")
       => (/\ last'.outcome = "returned"
           /\ last'.trades = <<>>
           /\ Cardinality(DOMAIN orders') = Cardinality(DOMAIN orders) + 1
           /\ LET ladder == IF last'.arg.side_ = "Buy" THEN bids' ELSE asks'
                  price == last'.arg.price_
              IN  /\ price \in DOMAIN ladder
                  /\ ladder[price] # <<>>
                  /\ pool'[ladder[price][Len(ladder[price])]] = last'.arg)]_vars

\* The places of the two ladders: ladder, price, position in the level.
Slots ==
    {<<"bids", p, k>> : p \in DOMAIN bids, k \in 1..MaxOrders}
    \cup {<<"asks", p, k>> : p \in DOMAIN asks, k \in 1..MaxOrders}

Occupied ==
    {s \in Slots : s[3] \in DOMAIN Ladder(Book, s[1])[s[2]]}

OrderAt(s) == Ladder(Book, s[1])[s[2]][s[3]]

\* C15 (index/ladder consistency): an id is in the index iff exactly one
\* place of the ladders holds an order with that id; the index entry's
\* position is that place and its pointer that order; and Size() is the
\* number of orders held in the two ladders.
IndexLadderConsistency ==
    Running =>
        /\ \A id \in OrderIds :
               id \in DOMAIN orders
                   <=> Cardinality({s \in Occupied :
                                       pool[OrderAt(s)].orderId_ = id}) = 1
        /\ \A id \in DOMAIN orders :
               /\ \E s \in Occupied : OrderAt(s) = orders[id].location_
               /\ orders[id].order_ = orders[id].location_
               /\ pool[orders[id].order_].orderId_ = id
        /\ Size(Book) = Cardinality(Occupied)

\* C16 (no empty levels): after AddOrder, CancelOrder or MatchOrder has
\* returned, every price level of either ladder holds at least one order.
NoEmptyLevels ==
    Returned({"AddOrder", "CancelOrder", "MatchOrder"}) =>
        /\ \A p \in DOMAIN bids : bids[p] # <<>>
        /\ \A p \in DOMAIN asks : asks[p] # <<>>

\* C16 witness: MatchOrder has replaced the only order of the book: its
\* cancel emptied the order's level, and the book is left with the one level
\* of the replacement.
NoEmptyLevelsWitness ==
    /\ Returned({"MatchOrder"})
    /\ last.arg.orderId_ \in DOMAIN orders
    /\ Cardinality(Resting) = 1
    /\ DOMAIN bids = {last.arg.price_}
    /\ DOMAIN asks = {}

RemainingBefore(id, side, price) ==
    {pool[h].remainingQuantity_ :
        h \in {x \in Resting : /\ pool[x].orderId_ = id
                               /\ pool[x].side_ = side
                               /\ pool[x].price_ = price}}
    \cup (IF /\ last'.arg.orderId_ = id
             /\ last'.arg.side_ = side
             /\ last'.arg.price_ = price
          THEN {IF last'.op = "AddOrder" THEN last'.arg.initialQuantity_
                ELSE last'.arg.quantity_}
          ELSE {})

\* The remaining quantity of the order id when the call has ended: 0 when it
\* rests no more.
RemainingAfter(id) ==
    LET rest == {h \in Nodes(bids') \cup Nodes(asks') : pool'[h].orderId_ = id}
    IN  IF rest = {} THEN 0
        ELSE pool'[CHOOSE h \in rest : TRUE].remainingQuantity_

Decremented(info, side) ==
    \E r \in RemainingBefore(info.orderId_, side, info.price_) :
        r - RemainingAfter(info.orderId_) >= info.quantity_

MatchingTerminates ==
    [][(last'.op = "AddOrder")
       => (/\ last'.outcome = "returned"
           /\ \/ DOMAIN bids' = {}
              \/ DOMAIN asks' = {}
              \/ Max(DOMAIN bids') < Min(DOMAIN asks')
           /\ Len(last'.trades)
                  <= Cardinality(Resting) + 1
                     - Cardinality(Nodes(bids') \cup Nodes(asks')))]_vars

\* C20 (GoodTillCancel persistence): across a call that is not a CancelOrder
\* or MatchOrder of its id, a GoodTillCancel order in a ladder stays there
\* unchanged but for its remaining quantity, or leaves with nothing
\* remaining; and what its remaining quantity has gone down by is covered by
\* the returned trades that name it.
GoodTillCancelPersists ==
    [][\A h \in Resting :
          (/\ pool[h].orderType_ = "GoodTillCancel"
           /\ ~(/\ last'.op \in {"CancelOrder", "MatchOrder"}
                /\ last'.arg.orderId_ = pool[h].orderId_))
          => LET after == IF h \in Nodes(bids') \cup Nodes(asks')
                          THEN pool'[h].remainingQuantity_ ELSE 0
             IN  /\ h \in Nodes(bids') \cup Nodes(asks')
                     => pool'[h] = [pool[h] EXCEPT !.remainingQuantity_ = after]
                 /\ after <= pool[h].remainingQuantity_
                 /\ after < pool[h].remainingQuantity_
                     => TradedQuantity(pool[h].orderId_, last'.trades)
                            >= pool[h].remainingQuantity_ - after]_vars

\* C20 witness: CancelOrder of another id has returned, an order allocated
\* earlier is gone, and the GoodTillCancel order allocated after it rests.
GoodTillCancelPersistsWitness ==
    /\ Returned({"CancelOrder"})
    /\ last.arg.orderId_ \notin DOMAIN orders
    /\ DOMAIN pool = {2}
    /\ 2 \in Resting
    /\ pool[2].orderType_ = "GoodTillCancel"
    /\ pool[2].orderId_ # last.arg.orderId_

====
